---- MODULE Spec2Model ----
(***************************************************************************)
(* text-to-cw: a model of src/src/text-to-cw.c.                            *)
(*                                                                         *)
(* The program parses its options, opens the input, builds five sample     *)
(* templates (dit, dah and three silences), renders the input byte by byte *)
(* into the growing buffer `result`, releases the templates, streams the   *)
(* buffer to a FLAC encoder and exits.                                     *)
(*                                                                         *)
(* Representation.                                                         *)
(*  - The heap is the set `heap` of the names of the live blocks; a        *)
(*    pointer of the program is non-NULL exactly when its block is live,   *)
(*    except `result` after the final free (main does not reset it).       *)
(*  - The buffer `result` is kept run-length encoded: one record           *)
(*    [off, len, src] per memcpy of write_result, off being the offset     *)
(*    the copy was written at, len its length in samples and src the       *)
(*    template copied (the whole template, from its sample 0).  SampleAt   *)
(*    gives the sample-level view.  The tone samples themselves            *)
(*    (volume * sin(...)) are not computed: a tone sample is identified    *)
(*    by its template and its index in it; a silence sample is 0.          *)
(*  - `char ch` of main receives the int results of getopt and getc.       *)
(*    Whether plain char is signed is the build's choice (char_signed).    *)
(*  - nsamples_unit is evaluated in IEEE-754 double arithmetic (as on      *)
(*    x86-64 and AArch64); for every wpm in 1..100 the truncated double    *)
(*    result equals the integer quotient used below.                       *)
(*  - The calls into libc and libFLAC that can fail (fopen, malloc,        *)
(*    realloc, fmemopen, fread, the encoder) fail nondeterministically.    *)
(*  - getopt is that of glibc with POSIXLY_CORRECT unset: it takes options *)
(*    wherever they stand and moves the other arguments behind them.       *)
(*    An option's argument is attached or in the next element; `--`        *)
(*    ends the options.                                                    *)
(*  - atoi is that of glibc, (int) strtol(...).  For a number that does    *)
(*    not fit an int the C standard leaves atoi undefined: atoi_results    *)
(*    then holds both the glibc value and the value wrapped to 32 bits.    *)
(*  - A sample lies in memory low byte first (a little-endian host).       *)
(***************************************************************************)
EXTENDS Integers, Sequences, FiniteSets, TLC

(* ------------------------------------------------------------------ *)
(* Program constants                                                    *)
(* ------------------------------------------------------------------ *)
DEFAULT_FREQUENCY == 600
DEFAULT_WPM == 18
DEFAULT_SAMPLE_RATE == 44100
READSIZE == 1024
EXIT_SUCCESS == 0
EXIT_FAILURE == 1
EOF == -1

sample_rate == DEFAULT_SAMPLE_RATE

(* ------------------------------------------------------------------ *)
(* Bounds of the model                                                  *)
(* ------------------------------------------------------------------ *)
\* the most options on the command lines of the option handling alone
MaxOpts == 2
\* the most options on the command lines of whole runs
MaxRunOpts == 1
\* the most bytes in the input file
MaxInput == 3

\* the vertical tab, the character 0x0B (\v of C), written as itself
VT == ""

\* option arguments tried for -f and -w, as the characters of optarg: 0, 100,
\* 101, -7, a blank and a vertical tab before 100, 2^32 + 100 (too large for
\* an int) and 2^63 + 100 (too large for a long)
OptArgs ==
    { <<"0">>, <<"1", "0", "0">>, <<"1", "0", "1">>, <<"-", "7">>,
      <<" ", VT, "1", "0", "0">>,
      <<"4", "2", "9", "4", "9", "6", "7", "3", "9", "6">>,
      <<"9", "2", "2", "3", "3", "7", "2", "0", "3", "6", "8", "5", "4", "7",
        "7", "5", "9", "0", "8">> }
\* option arguments tried for -t
FreqArgs == { <<"5", "9">>, <<"6", "0", "0">> }
\* the bytes input files are made of: E, A, space, NUL and 0xFF
Bytes == {69, 65, 32, 0, 255}

(* ------------------------------------------------------------------ *)
(* State                                                                *)
(* ------------------------------------------------------------------ *)
VARIABLES
    char_signed,                \* whether the build's plain char is signed
    argv, optind,               \* the command line and getopt's index in it
    first_nonopt, last_nonopt,  \* getopt's bounds of the arguments it skipped
    nextchar,                   \* getopt's letters still to read in an element
    ch, wpm, fwpm, i,           \* main's locals
    frequency,                  \* global, set by -t
    input,                      \* main's FILE *input
    heap,                       \* the live heap blocks, by pointer name
    dit_tone_len, dah_tone_len,
    inter_character_space_len, intra_character_space_len,
    inter_word_space_len,
    result, result_len, total_samples,
    wc_i,                       \* write_character's local i
    fin, encoder, ok, left,     \* encode_result's locals
    pc, exit_code

optvars == <<argv, optind, first_nonopt, last_nonopt, nextchar>>
speedvars == <<wpm, fwpm, frequency>>
tonelens == <<dit_tone_len, dah_tone_len>>
spacelens == <<inter_character_space_len, intra_character_space_len,
               inter_word_space_len>>
bufvars == <<result, result_len, total_samples>>
encvars == <<encoder, ok, left>>
vars == <<char_signed, optvars, ch, speedvars, i, input, heap, tonelens,
          spacelens, bufvars, wc_i, fin, encvars, pc, exit_code>>

(* ------------------------------------------------------------------ *)
(* C helpers                                                            *)
(* ------------------------------------------------------------------ *)
\* the character code of an option letter, as getopt returns it
Ord(c) ==
    CASE c = "f" -> 102
      [] c = "h" -> 104
      [] c = "t" -> 116
      [] c = "V" -> 86
      [] c = "w" -> 119
      [] OTHER -> 63

\* the conversion of an int to plain char
ToChar(v) ==
    LET b == v % 256
    IN  IF char_signed /\ b > 127 THEN b - 256 ELSE b

\* a faulty variant of ToUChar: the table index cut to 7 bits
ToUChar_7bit(c) == c % 128

\* the conversion of a char to unsigned char (the parameter of write_character)
ToUChar(c) == c % 256

DigitVal(c) ==
    CASE c = "0" -> 0 [] c = "1" -> 1 [] c = "2" -> 2 [] c = "3" -> 3
      [] c = "4" -> 4 [] c = "5" -> 5 [] c = "6" -> 6 [] c = "7" -> 7
      [] c = "8" -> 8 [] c = "9" -> 9 [] OTHER -> -1

Min(a, b) == IF a < b THEN a ELSE b

\* isspace in the C locale: blank, \t, \n, \v, \f and \r
isspace(c) == c \in {" ", "\t", "\n", VT, "\f", "\r"}

RECURSIVE skip_space(_)
skip_space(s) ==
    IF s # <<>> /\ isspace(Head(s)) THEN skip_space(Tail(s)) ELSE s

\* the decimal digits a string starts with
RECURSIVE leading_digits(_)
leading_digits(s) ==
    IF s = <<>> \/ DigitVal(Head(s)) < 0
    THEN <<>>
    ELSE <<Head(s)>> \o leading_digits(Tail(s))

RECURSIVE strip_zeros(_)
strip_zeros(d) ==
    IF d # <<>> /\ Head(d) = "0" THEN strip_zeros(Tail(d)) ELSE d

\* the digits of LONG_MAX = 2^63 - 1, the largest value of a 64-bit long
LONG_MAX_digits ==
    <<"9", "2", "2", "3", "3", "7", "2", "0", "3", "6", "8", "5", "4", "7",
      "7", "5", "8", "0", "7">>

\* whether the number written by the digits a is larger than the one
\* written by b (neither with leading zeros)
RECURSIVE digits_greater(_, _)
digits_greater(a, b) ==
    IF Len(a) # Len(b) THEN Len(a) > Len(b)
    ELSE IF a = <<>> THEN FALSE
    ELSE IF Head(a) # Head(b) THEN DigitVal(Head(a)) > DigitVal(Head(b))
    ELSE digits_greater(Tail(a), Tail(b))

\* the low 32 bits of the number written by the digits, as the pair of its
\* high and low 16-bit halves
RECURSIVE low32(_, _)
low32(d, acc) ==
    IF d = <<>> THEN acc
    ELSE LET lo == acc[2] * 10 + DigitVal(Head(d))
             hi == acc[1] * 10 + lo \div 65536
         IN  low32(Tail(d), <<hi % 65536, lo % 65536>>)

\* the int whose 32 bits are the halves h
as_int(h) == (IF h[1] >= 32768 THEN h[1] - 65536 ELSE h[1]) * 65536 + h[2]

\* the halves of the two's complement of h
negated(h) ==
    IF h[2] = 0 THEN <<(65536 - h[1]) % 65536, 0>>
    ELSE <<65535 - h[1], 65536 - h[2]>>

\* the sign and the digits atoi reads: white space is skipped, then an
\* optional sign, then the leading decimal digits
atoi_parse(s) ==
    LET t == skip_space(s)
        neg == t # <<>> /\ Head(t) = "-"
        u == IF t # <<>> /\ Head(t) \in {"-", "+"} THEN Tail(t) ELSE t
    IN  [neg |-> neg, digits |-> strip_zeros(leading_digits(u))]

\* the number does not fit an int: the C standard leaves atoi undefined
atoi_overflows(s) ==
    LET p == atoi_parse(s)
    IN  \/ Len(p.digits) > 10
        \/ Len(p.digits) = 10 /\
              digits_greater(p.digits,
                             IF p.neg
                             THEN <<"2","1","4","7","4","8","3","6","4","8">>
                             ELSE <<"2","1","4","7","4","8","3","6","4","7">>)

\* the number cut to its low 32 bits, as the loop n = 10*n - digit of an atoi
\* that accumulates in an int gives it on a two's complement machine
atoi_wrapped(s) ==
    LET p == atoi_parse(s)
        h == low32(p.digits, <<0, 0>>)
    IN  as_int(IF p.neg THEN negated(h) ELSE h)

\* atoi as glibc has it, (int) strtol(nptr, NULL, 10): strtol gives LONG_MAX
\* or LONG_MIN for a number outside a 64-bit long, and the cast keeps the low
\* 32 bits
atoi(s) ==
    LET p == atoi_parse(s)
    IN  IF digits_greater(p.digits, LONG_MAX_digits)
        THEN (IF p.neg THEN 0 ELSE -1)
        ELSE atoi_wrapped(s)

\* what atoi may return: its value, and for a number that does not fit an
\* int, where the behaviour is undefined, either of the two results above
atoi_results(s) ==
    IF atoi_overflows(s) THEN {atoi(s), atoi_wrapped(s)} ELSE {atoi(s)}

(* ------------------------------------------------------------------ *)
(* Timing                                                               *)
(* ------------------------------------------------------------------ *)
\* a faulty variant of nsamples_unit: rounding to the nearest sample
nsamples_unit_nearest(w) == (2 * sample_rate * 60 + 50 * w) \div (2 * 50 * w)

\* static int nsamples_unit(int wpm) { return sample_rate * (60.0 / (50.0 * wpm)); }
\* the double is truncated to int
nsamples_unit(w) == (sample_rate * 60) \div (50 * w)

nsamples_dit(w) == 1 * nsamples_unit(w)
\* a faulty variant of nsamples_dah: three units truncated together
nsamples_dah_truncated_late(w) == (3 * sample_rate * 60) \div (50 * w)

nsamples_dah(w) == 3 * nsamples_unit(w)
nsamples_intra_character_space(w) == 1 * nsamples_unit(w)
nsamples_inter_character_space(w) == 3 * nsamples_unit(w)
nsamples_inter_word_space(w) == 5 * nsamples_unit(w)

nsamples_rise_time(w) == nsamples_dit(w) \div 10
nsamples_fall_time(w) == nsamples_dit(w) \div 10

(* ------------------------------------------------------------------ *)
(* The code table                                                       *)
(* ------------------------------------------------------------------ *)
alphabet(c) ==
    CASE c \in {7, 10, 32} -> <<" ">>
      [] c \in {44} -> <<"-", "-", ".", ".", "-", "-">>
      [] c \in {46} -> <<".", "-", ".", "-", ".", "-">>
      [] c \in {48} -> <<"-", "-", "-", "-", "-">>
      [] c \in {49} -> <<".", "-", "-", "-", "-">>
      [] c \in {50} -> <<".", ".", "-", "-", "-">>
      [] c \in {51} -> <<".", ".", ".", "-", "-">>
      [] c \in {52} -> <<".", ".", ".", ".", "-">>
      [] c \in {53} -> <<".", ".", ".", ".", ".">>
      [] c \in {54} -> <<"-", ".", ".", ".", ".">>
      [] c \in {55} -> <<"-", "-", ".", ".", ".">>
      [] c \in {56} -> <<"-", "-", "-", ".", ".">>
      [] c \in {57} -> <<"-", "-", "-", "-", ".">>
      [] c \in {61} -> <<"-", ".", ".", ".", "-">>
      [] c \in {63} -> <<".", ".", "-", "-", ".", ".">>
      [] c \in {65, 97} -> <<".", "-">>
      [] c \in {66, 98} -> <<"-", ".", ".", ".">>
      [] c \in {67, 99} -> <<"-", ".", "-", ".">>
      [] c \in {68, 100} -> <<"-", ".", ".">>
      [] c \in {69, 101} -> <<".">>
      [] c \in {70, 102} -> <<".", ".", "-", ".">>
      [] c \in {71, 103} -> <<"-", "-", ".">>
      [] c \in {72, 104} -> <<".", ".", ".", ".">>
      [] c \in {73, 105} -> <<".", ".">>
      [] c \in {74, 106} -> <<".", "-", "-", "-">>
      [] c \in {75, 107} -> <<"-", ".", "-">>
      [] c \in {76, 108} -> <<".", "-", ".", ".">>
      [] c \in {77, 109} -> <<"-", "-">>
      [] c \in {78, 110} -> <<"-", ".">>
      [] c \in {79, 111} -> <<"-", "-", "-">>
      [] c \in {80, 112} -> <<".", "-", "-", ".">>
      [] c \in {81, 113} -> <<"-", "-", ".", "-">>
      [] c \in {82, 114} -> <<".", "-", ".">>
      [] c \in {83, 115} -> <<".", ".", ".">>
      [] c \in {84, 116} -> <<"-">>
      [] c \in {85, 117} -> <<".", ".", "-">>
      [] c \in {86, 118} -> <<".", ".", ".", "-">>
      [] c \in {87, 119} -> <<".", "-", "-">>
      [] c \in {88, 120} -> <<"-", ".", ".", "-">>
      [] c \in {89, 121} -> <<"-", ".", "-", "-">>
      [] c \in {90, 122} -> <<"-", "-", ".", ".">>
      [] OTHER -> <<>>

(* ------------------------------------------------------------------ *)
(* Initial state                                                        *)
(* ------------------------------------------------------------------ *)
SeqsUpTo(S, n) == UNION { [1..k -> S] : k \in 0..n }

\* An element of argv is a record: opt is the character after its '-' ("" for
\* an element that is no option: one that does not start with '-', or "-"
\* alone) and arg the characters after that; -w100 is [opt |-> "w", arg |->
\* <<"1", "0", "0">>], -hV is [opt |-> "h", arg |-> <<"V">>] and `--` is
\* [opt |-> "-", arg |-> <<>>].
\* The options written as one element: -f, -w and -t with the argument
\* attached, -h, -V and a letter that is not in "f:ht:Vw:"
Options ==
    { [opt |-> o, arg |-> a] : o \in {"f", "w"}, a \in OptArgs }
    \cup { [opt |-> "t", arg |-> a] : a \in FreqArgs }
    \cup { [opt |-> o, arg |-> <<>>] : o \in {"h", "V", "x"} }

\* a command-line argument that is no option: a file name
File == [opt |-> "", arg |-> <<"i", "n">>]

\* what the command lines of whole runs are made of besides file names: an
\* option in one element, -w with its argument in the next element (-w 100),
\* and a -w that has no argument of its own
RunChunks ==
    { <<o>> : o \in Options }
    \cup { << [opt |-> "w", arg |-> <<>>],
               [opt |-> "", arg |-> <<"1", "0", "0">>] >>,
            << [opt |-> "w", arg |-> <<>>] >> }

\* those and, for the option handling alone, the end of the options `--`
\* and elements of several letters, -hV and -xw5
OptionChunks ==
    RunChunks
    \cup { << [opt |-> "-", arg |-> <<>>] >>,
            << [opt |-> "h", arg |-> <<"V">>] >>,
            << [opt |-> "x", arg |-> <<"w", "5">>] >> }

RECURSIVE Concat(_)
Concat(ss) == IF ss = <<>> THEN <<>> ELSE Head(ss) \o Concat(Tail(ss))

\* the ways to place m file names in a command line of n parts
FilePlaces(n, m) == { Q \in SUBSET (1..n) : Cardinality(Q) = m }

\* the command line of the chunks o with file names at the places P
CommandLine(o, P) ==
    Concat([j \in 1..(Len(o) + Cardinality(P)) |->
              IF j \in P THEN <<File>>
              ELSE o[j - Cardinality({q \in P : q < j})]])

\* argv is a command line with at most n of the chunks and one or two file
\* names, the file names before, between or after the chunks
GivenCommandLine(chunks, n) ==
    \E o \in SeqsUpTo(chunks, n), m \in {1, 2} :
       \E P \in FilePlaces(Len(o) + m, m) : argv = CommandLine(o, P)

\* the contents an input file can have
Inputs == SeqsUpTo(Bytes, MaxInput)

NoStream == [state |-> "null", content |-> <<>>, pos |-> 0]
NoMemStream == [state |-> "null", size |-> 0, pos |-> 0]

\* the globals and main's locals as their initialisers leave them
Globals ==
    /\ optind = 1
    /\ first_nonopt = 1
    /\ last_nonopt = 1
    /\ nextchar = <<>>
    /\ ch = 0
    /\ wpm = DEFAULT_WPM
    /\ fwpm = 0
    /\ i = 0
    /\ frequency = DEFAULT_FREQUENCY
    /\ input = NoStream
    /\ heap = {}
    /\ dit_tone_len = 0
    /\ dah_tone_len = 0
    /\ inter_character_space_len = 0
    /\ intra_character_space_len = 0
    /\ inter_word_space_len = 0
    /\ result = <<>>
    /\ result_len = 0
    /\ total_samples = 0
    /\ wc_i = 0
    /\ fin = NoMemStream
    /\ encoder = [state |-> "null", fed |-> 0, blocks |-> <<>>]
    /\ ok = TRUE
    /\ left = 0
    /\ exit_code = 0

Init ==
    /\ char_signed \in BOOLEAN
    /\ GivenCommandLine(RunChunks, MaxRunOpts)
    /\ Globals
    /\ pc = "getopt"

(* ------------------------------------------------------------------ *)
(* exit(3): the process ends; exit closes the stdio streams still open  *)
(* ------------------------------------------------------------------ *)
CloseStream(s) == IF s.state = "open" THEN [s EXCEPT !.state = "closed"] ELSE s

Exit(code) ==
    /\ pc' = "exited"
    /\ exit_code' = code
    /\ input' = CloseStream(input)
    /\ fin' = CloseStream(fin)

\* the steps that do not exit leave the streams and the exit status alone
Goto(label) ==
    /\ pc' = label
    /\ UNCHANGED exit_code

(* ------------------------------------------------------------------ *)
(* main: option handling                                                *)
(* ------------------------------------------------------------------ *)
\* getopt(argc, argv, "f:ht:Vw:") of glibc, with POSIXLY_CORRECT unset: the
\* options are taken wherever they stand, and the arguments that are no
\* options are moved behind them (PERMUTE).  Indices are those of C: argv[1]
\* is the first argument and argc is Len(argv) + 1.

\* NONOPTION_P: the element does not start with '-'
NonOption(e) == e.opt = ""

\* the letters followed by ':' in "f:ht:Vw:"
TakesArgument(o) == o \in {"f", "t", "w"}

\* the characters of an element
Text(e) == IF e.opt = "" THEN e.arg ELSE <<"-", e.opt>> \o e.arg

\* exchange(): the options av[middle..top-1] go before the non-options
\* av[first..middle-1]
exchange(av, first, middle, top) ==
    SubSeq(av, 1, first - 1) \o SubSeq(av, middle, top - 1)
        \o SubSeq(av, first, middle - 1) \o SubSeq(av, top, Len(av))

\* while (optind < argc && NONOPTION_P) optind++
RECURSIVE skip_nonoptions(_, _)
skip_nonoptions(av, k) ==
    IF k <= Len(av) /\ NonOption(av[k]) THEN skip_nonoptions(av, k + 1) ELSE k

\* the element is `--`
EndOfOptions(e) == e.opt = "-" /\ e.arg = <<>>

\* The short option that `chars` starts with, chars being what is left to
\* read of the element av[at]: c = *nextchar++; if nothing is left of the
\* element, ++optind; '?' for a letter that is not in "f:ht:Vw:"; for a
\* letter that takes an argument, the argument is the rest of the element
\* or, with nothing left, the next element (whatever it is), and '?' when
\* there is none
short_option(av, first, last, at, chars) ==
    LET argc == Len(av) + 1
        c == Head(chars)
        rest == Tail(chars)
        next == IF rest = <<>> THEN at + 1 ELSE at
        here == [argv |-> av, first_nonopt |-> first, last_nonopt |-> last,
                 optind |-> next, nextchar |-> rest, result |-> Ord(c),
                 optarg |-> <<>>]
    IN  IF ~TakesArgument(c)
        THEN here
        ELSE IF rest # <<>>
        THEN [here EXCEPT !.optarg = rest, !.optind = at + 1,
                          !.nextchar = <<>>]
        ELSE IF next = argc
        THEN [here EXCEPT !.result = Ord("?")]
        ELSE [here EXCEPT !.optarg = Text(av[next]), !.optind = next + 1]

\* one call of getopt: its return value, optarg, and what it leaves in argv,
\* optind, first_nonopt, last_nonopt and nextchar
getopt ==
    LET argc == Len(argv) + 1
        last0 == Min(last_nonopt, optind)
        first0 == Min(first_nonopt, optind)
        swap == first0 # last0 /\ last0 # optind
        av == IF swap THEN exchange(argv, first0, last0, optind) ELSE argv
        first1 == IF swap THEN first0 + (optind - last0)
                  ELSE IF last0 # optind THEN optind
                  ELSE first0
        at == skip_nonoptions(av, optind)
        end == [argv |-> av, first_nonopt |-> first1, last_nonopt |-> at,
                optind |-> IF first1 # at THEN first1 ELSE at,
                nextchar |-> <<>>, result |-> -1, optarg |-> <<>>]
    IN  IF nextchar # <<>>
        THEN \* still inside the element argv[optind]
             short_option(argv, first_nonopt, last_nonopt, optind, nextchar)
        ELSE IF at = argc
        THEN \* the end: optind goes back to the first non-option
             end
        ELSE IF EndOfOptions(av[at])
        THEN \* `--`: it is skipped and everything after it is no option
             LET first2 == IF first1 # at THEN first1 + 1 ELSE at + 1
             IN  [end EXCEPT
                    !.argv = IF first1 # at
                             THEN exchange(av, first1, at, at + 1) ELSE av,
                    !.first_nonopt = first2,
                    !.last_nonopt = argc,
                    !.optind = IF first2 # argc THEN first2 ELSE argc]
        ELSE short_option(av, first1, at, at, <<av[at].opt>> \o av[at].arg)

getopt_result == getopt.result

\* optarg as getopt leaves it for the option it returns
optarg == getopt.optarg

\* fwpm = fwpm < 1 || fwpm > 100 ? 0 : fwpm
fwpm_option(v) == IF v < 1 \/ v > 100 THEN 0 ELSE v

\* a faulty variant of wpm_option: no upper limit
wpm_option_no_upper(v) == IF v < 1 THEN DEFAULT_WPM ELSE v

\* wpm = wpm < 1 || wpm > 100 ? DEFAULT_WPM : wpm
wpm_option(v) == IF v < 1 \/ v > 100 THEN DEFAULT_WPM ELSE v

\* frequency = frequency < 60 || frequency > 3000 ? DEFAULT_FREQUENCY : frequency
frequency_option(v) == IF v < 60 \/ v > 3000 THEN DEFAULT_FREQUENCY ELSE v

\* One pass of while ((ch = getopt(...)) != -1) { switch (ch) ... }.  The value
\* compared with -1 and switched on is ch, a char: with an unsigned char the -1
\* of getopt is 255, the loop does not end there and the switch takes default.
GetoptPass(c) ==
    /\ pc = "getopt"
    /\ c = ToChar(getopt_result)
    /\ ch' = c
    /\ argv' = getopt.argv
    /\ optind' = getopt.optind
    /\ first_nonopt' = getopt.first_nonopt
    /\ last_nonopt' = getopt.last_nonopt
    /\ nextchar' = getopt.nextchar
    /\ UNCHANGED <<char_signed, i, heap, tonelens, spacelens, bufvars,
                   wc_i, encvars>>

\* case 'f'
OptF ==
    /\ GetoptPass(Ord("f"))
    /\ \E v \in atoi_results(optarg) : fwpm' = fwpm_option(v)
    /\ Goto("getopt")
    /\ UNCHANGED <<wpm, frequency, input, fin>>

\* case 't'
OptT ==
    /\ GetoptPass(Ord("t"))
    /\ \E v \in atoi_results(optarg) : frequency' = frequency_option(v)
    /\ Goto("getopt")
    /\ UNCHANGED <<wpm, fwpm, input, fin>>

\* case 'w'
OptW ==
    /\ GetoptPass(Ord("w"))
    /\ \E v \in atoi_results(optarg) : wpm' = wpm_option(v)
    /\ Goto("getopt")
    /\ UNCHANGED <<fwpm, frequency, input, fin>>

\* case 'h' and case 'V': show_usage(stdout, EXIT_SUCCESS) and
\* show_version(stdout, EXIT_SUCCESS)
OptHelpVersion ==
    /\ \E c \in {Ord("h"), Ord("V")} : GetoptPass(c)
    /\ Exit(EXIT_SUCCESS)
    /\ UNCHANGED speedvars

\* default: show_usage(stderr, EXIT_FAILURE)
OptDefault ==
    /\ \E c \in {Ord("x"), 255} : GetoptPass(c)
    /\ Exit(EXIT_FAILURE)
    /\ UNCHANGED speedvars

\* getopt returns -1 and ch compares equal to it: the loop ends
OptEnd ==
    /\ GetoptPass(-1)
    /\ Goto("fwpm_default")
    /\ UNCHANGED <<speedvars, input, fin>>

AfterOptsRest ==
    UNCHANGED <<char_signed, ch, i, heap, tonelens, spacelens, bufvars, wc_i,
                encvars>>

\* if (fwpm == 0) fwpm = wpm
FwpmDefault ==
    /\ pc = "fwpm_default"
    /\ fwpm' = IF fwpm = 0 THEN wpm ELSE fwpm
    /\ Goto("shift_args")
    /\ UNCHANGED <<wpm, frequency, optvars, input, fin>>
    /\ AfterOptsRest

\* argc -= optind; argv += optind; if (argc != 2) show_usage(stderr, EXIT_FAILURE)
ShiftArgs ==
    /\ pc = "shift_args"
    /\ argv' = SubSeq(argv, optind, Len(argv))
    /\ IF Len(argv) - optind + 1 # 2
       THEN Exit(EXIT_FAILURE)
       ELSE Goto("fopen") /\ UNCHANGED <<input, fin>>
    /\ UNCHANGED <<optind, first_nonopt, last_nonopt, nextchar, speedvars>>
    /\ AfterOptsRest

\* input = fopen(argv[0], "r")
Fopen ==
    /\ pc = "fopen"
    /\ \/ \E content \in Inputs :
            /\ input' = [state |-> "open", content |-> content, pos |-> 0]
            /\ Goto("init_space")
            /\ UNCHANGED fin
       \/ Exit(EXIT_FAILURE)
    /\ UNCHANGED <<optvars, speedvars>>
    /\ AfterOptsRest

(* ------------------------------------------------------------------ *)
(* Templates                                                            *)
(* ------------------------------------------------------------------ *)
SpaceNames == <<"inter_character_space", "intra_character_space", "inter_word_space">>
ToneNames == <<"dit_tone", "dah_tone">>

\* the blocks malloc has returned when the malloc number `fail` returns NULL
\* (fail = 0: none does)
Allocated(names, fail) ==
    { names[k] : k \in { n \in 1..Len(names) : fail = 0 \/ n < fail } }

\* init_space(wpm, fwpm): each length is set before its malloc; the function
\* returns -1 at the first malloc that fails
init_space(w, f, fail) ==
    /\ inter_character_space_len' = nsamples_inter_character_space(f)
    /\ intra_character_space_len' =
           IF fail = 1 THEN intra_character_space_len
           ELSE nsamples_intra_character_space(w)
    /\ inter_word_space_len' =
           IF fail \in {1, 2} THEN inter_word_space_len
           ELSE nsamples_inter_word_space(f)
    /\ heap' = heap \cup Allocated(SpaceNames, fail)

\* rc = init_space(wpm, fwpm); if (rc == -1) exit(EXIT_FAILURE)
InitSpace ==
    /\ pc = "init_space"
    /\ \E fail \in 0..3 :
          /\ init_space(wpm, fwpm, fail)
          /\ IF fail = 0
             THEN Goto("init_tone") /\ UNCHANGED <<input, fin>>
             ELSE Exit(EXIT_FAILURE)
    /\ UNCHANGED <<char_signed, optvars, ch, speedvars, i, tonelens, bufvars,
                   wc_i, encvars>>

\* init_tone(wpm)
init_tone(w, fail) ==
    /\ dit_tone_len' = nsamples_dit(w)
    /\ dah_tone_len' = IF fail = 1 THEN dah_tone_len ELSE nsamples_dah(w)
    /\ heap' = heap \cup Allocated(ToneNames, fail)

\* rc = init_tone(wpm); if (rc == -1) exit(EXIT_FAILURE)
InitTone ==
    /\ pc = "init_tone"
    /\ \E fail \in 0..2 :
          /\ init_tone(wpm, fail)
          /\ IF fail = 0
             THEN Goto("getc") /\ UNCHANGED <<input, fin>>
             ELSE Exit(EXIT_FAILURE)
    /\ UNCHANGED <<char_signed, optvars, ch, speedvars, i, spacelens, bufvars,
                   wc_i, encvars>>

(* ------------------------------------------------------------------ *)
(* The sample buffer                                                    *)
(* ------------------------------------------------------------------ *)
\* a faulty variant of write_result: the copy goes to the start of the buffer
write_result_at_start(data, len) ==
    /\ result' = Append(result, [off |-> 0, len |-> len, src |-> data])
    /\ result_len' = result_len + len
    /\ total_samples' = result_len + len
    /\ heap' = heap \cup {"result"}

\* write_result(data, len) when realloc succeeds: len samples of the template
\* `data` are copied to offset result_len of the grown buffer
write_result(data, len) ==
    /\ result' = Append(result, [off |-> result_len, len |-> len, src |-> data])
    /\ result_len' = result_len + len
    /\ total_samples' = result_len + len
    /\ heap' = heap \cup {"result"}

\* write_result when realloc returns NULL: exit(EXIT_FAILURE)
realloc_fails ==
    /\ Exit(EXIT_FAILURE)
    /\ UNCHANGED <<bufvars, heap>>

write_dit == write_result("dit_tone", dit_tone_len)
write_dah == write_result("dah_tone", dah_tone_len)
write_inter_character_space ==
    write_result("inter_character_space", inter_character_space_len)
write_intra_character_space ==
    write_result("intra_character_space", intra_character_space_len)
write_inter_word_space == write_result("inter_word_space", inter_word_space_len)

(* ------------------------------------------------------------------ *)
(* main: the rendering loop                                             *)
(* ------------------------------------------------------------------ *)
\* getc(input): the next byte of the stream, EOF at its end
getc_result ==
    IF input.pos < Len(input.content) THEN input.content[input.pos + 1] ELSE EOF

RenderRest ==
    UNCHANGED <<char_signed, optvars, speedvars, tonelens, spacelens, encvars>>

\* for (i = 0; (ch = getc(input)) != EOF; i++): the value compared with EOF is
\* ch, a char
Getc ==
    /\ pc = "getc"
    /\ ch' = ToChar(getc_result)
    /\ input' = IF getc_result # EOF THEN [input EXCEPT !.pos = @ + 1] ELSE input
    /\ Goto(IF ToChar(getc_result) = EOF THEN "exit_tone"
            ELSE IF i # 0 THEN "write_inter_character_space"
            ELSE "write_character")
    /\ UNCHANGED <<i, wc_i, heap, bufvars, fin>>
    /\ RenderRest

\* if (i != 0) write_inter_character_space()
WriteInterCharacterSpace ==
    /\ pc = "write_inter_character_space"
    /\ \/ write_inter_character_space /\ Goto("write_character")
          /\ UNCHANGED <<input, fin>>
       \/ realloc_fails
    /\ UNCHANGED <<ch, i, wc_i>>
    /\ RenderRest

\* write_character(ch): s = alphabet[c]; an empty s returns at once (and the
\* loop of main does its i++)
WriteCharacter ==
    /\ pc = "write_character"
    /\ IF alphabet(ToUChar(ch)) = <<>>
       THEN /\ i' = i + 1
            /\ Goto("getc")
            /\ UNCHANGED wc_i
       ELSE /\ wc_i' = 0
            /\ Goto("wc_loop")
            /\ UNCHANGED i
    /\ UNCHANGED <<ch, input, fin, heap, bufvars>>
    /\ RenderRest

\* for (...; s[i] != '\0'; ...) { if (i != 0) write_intra_character_space(); ...
WcIntra ==
    /\ pc = "wc_loop"
    /\ wc_i < Len(alphabet(ToUChar(ch)))
    /\ \/ /\ IF wc_i # 0
             THEN write_intra_character_space
             ELSE UNCHANGED <<bufvars, heap>>
          /\ Goto("wc_symbol")
          /\ UNCHANGED <<input, fin>>
       \/ wc_i # 0 /\ realloc_fails
    /\ UNCHANGED <<ch, i, wc_i>>
    /\ RenderRest

\* ... switch (s[i]) { case ' ': ... case '.': ... case '-': ... } }, then i++
WcSymbol ==
    /\ pc = "wc_symbol"
    /\ \/ /\ LET sym == alphabet(ToUChar(ch))[wc_i + 1]
             IN  CASE sym = " " -> write_inter_word_space
                   [] sym = "." -> write_dit
                   [] sym = "-" -> write_dah
                   [] OTHER -> UNCHANGED <<bufvars, heap>>
          /\ wc_i' = wc_i + 1
          /\ Goto("wc_loop")
          /\ UNCHANGED <<input, fin>>
       \/ realloc_fails /\ UNCHANGED wc_i
    /\ UNCHANGED <<ch, i>>
    /\ RenderRest

\* s[i] == '\0': write_character returns, and the loop of main does its i++
WcReturn ==
    /\ pc = "wc_loop"
    /\ wc_i >= Len(alphabet(ToUChar(ch)))
    /\ i' = i + 1
    /\ Goto("getc")
    /\ UNCHANGED <<ch, wc_i, input, fin, heap, bufvars>>
    /\ RenderRest

(* ------------------------------------------------------------------ *)
(* main: after the loop                                                 *)
(* ------------------------------------------------------------------ *)
CleanupRest ==
    UNCHANGED <<char_signed, optvars, ch, speedvars, i, wc_i, bufvars, encvars>>

\* exit_tone()
ExitTone ==
    /\ pc = "exit_tone"
    /\ heap' = heap \ {"dit_tone", "dah_tone"}
    /\ dit_tone_len' = 0
    /\ dah_tone_len' = 0
    /\ Goto("exit_space")
    /\ UNCHANGED <<spacelens, input, fin>>
    /\ CleanupRest

\* exit_space()
ExitSpace ==
    /\ pc = "exit_space"
    /\ heap' = heap \ {"inter_character_space", "intra_character_space",
                        "inter_word_space"}
    /\ inter_character_space_len' = 0
    /\ intra_character_space_len' = 0
    /\ inter_word_space_len' = 0
    /\ Goto("fclose")
    /\ UNCHANGED <<tonelens, input, fin>>
    /\ CleanupRest

\* fclose(input)
FcloseInput ==
    /\ pc = "fclose"
    /\ input' = CloseStream(input)
    /\ Goto("fmemopen")
    /\ UNCHANGED <<heap, tonelens, spacelens, fin>>
    /\ CleanupRest

(* ------------------------------------------------------------------ *)
(* encode_result                                                        *)
(* ------------------------------------------------------------------ *)
EncodeRest ==
    UNCHANGED <<char_signed, optvars, ch, speedvars, i, wc_i, bufvars, heap,
                tonelens, spacelens>>

\* fin = fmemopen(result, sizeof(int16_t) * result_len, "r")
Fmemopen ==
    /\ pc = "fmemopen"
    /\ \/ /\ fin' = [state |-> "open", size |-> result_len, pos |-> 0]
          /\ Goto("encoder_new")
          /\ UNCHANGED input
       \/ Exit(EXIT_FAILURE)
    /\ UNCHANGED encvars
    /\ EncodeRest

\* encoder = FLAC__stream_encoder_new()
EncoderNew ==
    /\ pc = "encoder_new"
    /\ \/ /\ encoder' = [state |-> "new", fed |-> 0, blocks |-> <<>>]
          /\ Goto("encoder_init")
          /\ UNCHANGED <<input, fin>>
       \/ Exit(EXIT_FAILURE) /\ UNCHANGED encoder
    /\ UNCHANGED <<ok, left>>
    /\ EncodeRest

\* the six ok &= FLAC__stream_encoder_set_...() and, if (ok), the
\* FLAC__stream_encoder_init_file(); then, if (ok), left = total_samples
EncoderInit ==
    /\ pc = "encoder_init"
    /\ \E set_ok \in BOOLEAN, init_ok \in BOOLEAN :
          /\ ok' = (ok /\ set_ok /\ init_ok)
          /\ encoder' = [encoder EXCEPT
                            !.state = IF ok /\ set_ok /\ init_ok THEN "init"
                                      ELSE IF ok /\ set_ok THEN "init_failed"
                                      ELSE @]
          /\ left' = IF ok /\ set_ok /\ init_ok THEN total_samples ELSE left
    /\ Goto("stream")
    /\ UNCHANGED <<input, fin>>
    /\ EncodeRest

\* a pass that takes everything that is left as one block
need_whole == left

\* need = (left > READSIZE ? READSIZE : left)
need == IF left > READSIZE THEN READSIZE ELSE left

\* fread(buffer, channels*(bps/8), need, fin): the whole samples still unread
\* in the memory stream, at most need
fread_count == Min(need, fin.size - fin.pos)

\* the two bytes an int16_t sample occupies in the buffer the memory stream
\* reads, low byte first (a little-endian host)
int16_bytes(sample) ==
    LET u == sample % 65536 IN <<u % 256, u \div 256>>

\* pcm[i] = (FLAC__int32)(((FLAC__int16)(FLAC__int8)buffer[2*i+1] << 8)
\*                        | (FLAC__int16)buffer[2*i])
pcm_sample(bytes) ==
    LET hi == IF bytes[2] >= 128 THEN bytes[2] - 256 ELSE bytes[2]
    IN  hi * 256 + bytes[1]

\* what fread may return: that count or, on a read error, no item at all
fread_results == {fread_count, 0}

\* one pass of while (ok && left): a block is read and, when it is complete,
\* converted into pcm and handed to FLAC__stream_encoder_process_interleaved,
\* which may reject it.  encoder.blocks records every block handed over, as
\* the buffer offset of its first sample and its number of samples;
\* encoder.fed counts the samples the encoder accepted.
EncodeBlock ==
    /\ pc = "stream"
    /\ ok /\ left # 0
    /\ \E count \in fread_results :
          /\ fin' = [fin EXCEPT !.pos = @ + count]
          /\ IF count # need
             THEN /\ ok' = FALSE
                  /\ UNCHANGED encoder
             ELSE \E accepted \in BOOLEAN :
                     /\ ok' = accepted
                     /\ encoder' =
                           [encoder EXCEPT
                              !.blocks = Append(@, [off |-> fin.pos,
                                                    len |-> need]),
                              !.fed = IF accepted THEN @ + need ELSE @,
                              !.state = IF accepted THEN @ ELSE "error"]
    /\ left' = left - need
    /\ Goto("stream")
    /\ UNCHANGED input
    /\ EncodeRest

\* the loop (or the if (ok) around it) is left; ok &=
\* FLAC__stream_encoder_finish(encoder); FLAC__stream_encoder_delete(encoder);
\* fclose(fin)
EncoderFinish ==
    /\ pc = "stream"
    /\ ~(ok /\ left # 0)
    /\ \E finish_ok \in BOOLEAN : ok' = (ok /\ finish_ok)
    /\ encoder' = [encoder EXCEPT !.state = "deleted"]
    /\ fin' = CloseStream(fin)
    /\ Goto("free_result")
    /\ UNCHANGED <<left, input>>
    /\ EncodeRest

\* if (result != NULL) { free(result); result_len = 0; } exit(EXIT_SUCCESS)
FreeResult ==
    /\ pc = "free_result"
    /\ heap' = heap \ {"result"}
    /\ result_len' = IF "result" \in heap THEN 0 ELSE result_len
    /\ Exit(EXIT_SUCCESS)
    /\ UNCHANGED <<char_signed, optvars, ch, speedvars, i, wc_i, result,
                   total_samples, tonelens, spacelens, encvars>>

Next ==
    \/ OptF \/ OptT \/ OptW \/ OptHelpVersion \/ OptDefault \/ OptEnd
    \/ FwpmDefault \/ ShiftArgs \/ Fopen \/ InitSpace \/ InitTone
    \/ Getc \/ WriteInterCharacterSpace \/ WriteCharacter
    \/ WcIntra \/ WcSymbol \/ WcReturn
    \/ ExitTone \/ ExitSpace \/ FcloseInput
    \/ Fmemopen \/ EncoderNew \/ EncoderInit \/ EncodeBlock \/ EncoderFinish
    \/ FreeResult

Spec == Init /\ [][Next]_vars


(* ------------------------------------------------------------------ *)
(* The option handling on more command lines                            *)
(* ------------------------------------------------------------------ *)
InitOptions ==
    /\ char_signed \in BOOLEAN
    /\ GivenCommandLine(OptionChunks, MaxOpts)
    /\ Globals
    /\ pc = "getopt"

\* main up to the check of the number of file names
NextOptions ==
    \/ OptF \/ OptT \/ OptW \/ OptHelpVersion \/ OptDefault \/ OptEnd
    \/ FwpmDefault \/ ShiftArgs

SpecOptions == InitOptions /\ [][NextOptions]_vars

(* ------------------------------------------------------------------ *)
(* The timing functions on every speed                                  *)
(* ------------------------------------------------------------------ *)
\* main as it reaches init_space after `-ww -ff INPUT OUTPUT` on a build
\* with a signed char, the input file holding `content`
AtInitSpace(w, f, content) ==
    /\ char_signed = TRUE
    /\ argv = <<File, File>>
    /\ optind = 3
    /\ first_nonopt = 3
    /\ last_nonopt = 5
    /\ nextchar = <<>>
    /\ ch = -1
    /\ wpm = w
    /\ fwpm = f
    /\ i = 0
    /\ frequency = DEFAULT_FREQUENCY
    /\ input = [state |-> "open", content |-> content, pos |-> 0]
    /\ heap = {}
    /\ dit_tone_len = 0
    /\ dah_tone_len = 0
    /\ inter_character_space_len = 0
    /\ intra_character_space_len = 0
    /\ inter_word_space_len = 0
    /\ result = <<>>
    /\ result_len = 0
    /\ total_samples = 0
    /\ wc_i = 0
    /\ fin = NoMemStream
    /\ encoder = [state |-> "null", fed |-> 0, blocks |-> <<>>]
    /\ ok = TRUE
    /\ left = 0
    /\ exit_code = 0
    /\ pc = "init_space"

\* every pair of speeds the option handling lets through
InitTiming == \E w \in 1..100, f \in 1..100 : AtInitSpace(w, f, <<>>)

NextTiming == InitSpace \/ InitTone

SpecTiming == InitTiming /\ [][NextTiming]_vars

(* ------------------------------------------------------------------ *)
(* The run from init_space to exit, with progress                       *)
(* ------------------------------------------------------------------ *)
\* main after its option handling, at the default speed or the fastest one
\* for each of wpm and fwpm, on every input file
InitRun ==
    \E w \in {DEFAULT_WPM, 100}, f \in {DEFAULT_WPM, 100}, content \in Inputs :
       AtInitSpace(w, f, content)

NextRun ==
    \/ InitSpace \/ InitTone
    \/ Getc \/ WriteInterCharacterSpace \/ WriteCharacter
    \/ WcIntra \/ WcSymbol \/ WcReturn
    \/ ExitTone \/ ExitSpace \/ FcloseInput
    \/ Fmemopen \/ EncoderNew \/ EncoderInit \/ EncodeBlock \/ EncoderFinish
    \/ FreeResult

\* the program is one thread of control that runs to completion: whenever a
\* step is possible, one is taken
SpecLive == InitRun /\ [][NextRun]_vars /\ WF_vars(NextRun)

(* ------------------------------------------------------------------ *)
(* write_character on every byte                                        *)
(* ------------------------------------------------------------------ *)
\* main as it calls write_character for the first byte b of the input, on a
\* build with a signed char and without options (both speeds DEFAULT_WPM)
AtFirstCharacter(b) ==
    /\ char_signed = TRUE
    /\ argv = <<File, File>>
    /\ optind = 1
    /\ first_nonopt = 1
    /\ last_nonopt = 3
    /\ nextchar = <<>>
    /\ ch = ToChar(b)
    /\ wpm = DEFAULT_WPM
    /\ fwpm = DEFAULT_WPM
    /\ i = 0
    /\ frequency = DEFAULT_FREQUENCY
    /\ input = [state |-> "open", content |-> <<b>>, pos |-> 1]
    /\ heap = {"inter_character_space", "intra_character_space",
               "inter_word_space", "dit_tone", "dah_tone"}
    /\ dit_tone_len = nsamples_dit(DEFAULT_WPM)
    /\ dah_tone_len = nsamples_dah(DEFAULT_WPM)
    /\ inter_character_space_len = nsamples_inter_character_space(DEFAULT_WPM)
    /\ intra_character_space_len = nsamples_intra_character_space(DEFAULT_WPM)
    /\ inter_word_space_len = nsamples_inter_word_space(DEFAULT_WPM)
    /\ result = <<>>
    /\ result_len = 0
    /\ total_samples = 0
    /\ wc_i = 0
    /\ fin = NoMemStream
    /\ encoder = [state |-> "null", fed |-> 0, blocks |-> <<>>]
    /\ ok = TRUE
    /\ left = 0
    /\ exit_code = 0
    /\ pc = "write_character"

\* every byte the loop of main passes to write_character on that build: the
\* byte 255 is not one of them (as a signed char it compares equal to EOF)
InitChar == \E b \in 0..254 : AtFirstCharacter(b)

NextChar == WriteCharacter \/ WcIntra \/ WcSymbol \/ WcReturn

SpecChar == InitChar /\ [][NextChar]_vars

(* ================================================================== *)
(* Properties                                                           *)
(* ================================================================== *)
TemplateNames == {"dit_tone", "dah_tone", "inter_character_space",
                  "intra_character_space", "inter_word_space"}

\* the current length of a template
TemplateLength(name) ==
    CASE name = "dit_tone" -> dit_tone_len
      [] name = "dah_tone" -> dah_tone_len
      [] name = "inter_character_space" -> inter_character_space_len
      [] name = "intra_character_space" -> intra_character_space_len
      [] name = "inter_word_space" -> inter_word_space_len

\* the template a symbol stands for
TemplateOf(sym) ==
    CASE sym = "." -> "dit_tone"
      [] sym = "-" -> "dah_tone"
      [] sym = " " -> "inter_word_space"

\* the templates of the symbols j.. of a symbol string: an intra-character
\* space before every symbol but the first
RECURSIVE SymbolsFrom(_, _)
SymbolsFrom(s, j) ==
    IF j > Len(s) THEN <<>>
    ELSE (IF j # 1 THEN <<"intra_character_space">> ELSE <<>>)
         \o <<TemplateOf(s[j])>> \o SymbolsFrom(s, j + 1)

\* the templates of the bytes k.. of a message: an inter-character space
\* before every byte but the first, whatever the byte maps to
RECURSIVE BytesFrom(_, _)
BytesFrom(b, k) ==
    IF k > Len(b) THEN <<>>
    ELSE (IF k # 1 THEN <<"inter_character_space">> ELSE <<>>)
         \o SymbolsFrom(alphabet(b[k]), 1) \o BytesFrom(b, k + 1)

Composition(b) == BytesFrom(b, 1)

\* the buffer holding whole copies of the named templates one after the
\* other from offset `off`
RECURSIVE Placed(_, _)
Placed(names, off) ==
    IF names = <<>> THEN <<>>
    ELSE <<[off |-> off, len |-> TemplateLength(Head(names)), src |-> Head(names)]>>
         \o Placed(Tail(names), off + TemplateLength(Head(names)))

RECURSIVE TotalLength(_)
TotalLength(names) ==
    IF names = <<>> THEN 0
    ELSE TemplateLength(Head(names)) + TotalLength(Tail(names))

\* the rendering loop of main has ended (the templates are not yet released)
RenderingDone == pc = "exit_tone"

\* While rendering, the buffer is the composition of the i bytes rendered so
\* far (an auxiliary invariant; it holds).
RenderedSoFar ==
    pc = "getc" =>
        /\ result = Placed(Composition(SubSeq(input.content, 1, i)), 0)
        /\ result_len = TotalLength(Composition(SubSeq(input.content, 1, i)))

\* C1: after rendering, the sample buffer is exactly the composition of the
\* whole input byte sequence: for each byte but the first an inter-character
\* space, then for each symbol of the byte's code an intra-character space
\* (but before the first) and the symbol's template; its length is the sum of
\* the lengths of the templates so composed.
C1_BufferIsCompositionOfInput ==
    RenderingDone =>
        /\ result = Placed(Composition(input.content), 0)
        /\ result_len = TotalLength(Composition(input.content))

\* C2: the rendering loop ends only at end-of-stream, after every byte of
\* the input was read and passed to write_character.
C2_LoopConsumesEveryByte ==
    RenderingDone =>
        /\ input.pos = Len(input.content)
        /\ i = Len(input.content)

\* C3: the run ends with a non-zero exit status whenever the encode did not
\* fully succeed (the encoder failed to initialise, a block was read short
\* or rejected, or the encoder could not finish): ok, the flag encode_result
\* reports "FAILED" from, is false; status 0 comes only with ok true.
C3_FailureExitsNonZero ==
    pc = "exited" => (~ok => exit_code # EXIT_SUCCESS)

\* the resources the process holds: live heap blocks, open streams and the
\* encoder between FLAC__stream_encoder_new and FLAC__stream_encoder_delete
Held ==
    heap
    \cup (IF input.state = "open" THEN {"input"} ELSE {})
    \cup (IF fin.state = "open" THEN {"fin"} ELSE {})
    \cup (IF encoder.state \notin {"null", "deleted"} THEN {"encoder"} ELSE {})

\* C4: on every fatal error path every resource acquired so far has been
\* released when the process terminates.
C4_FatalExitReleasesEverything ==
    pc = "exited" /\ exit_code = EXIT_FAILURE => Held = {}

Letters == (65..90) \cup (97..122)
Digits == 48..57
\* the punctuation in the table: , . = ?
Punctuation == {44, 46, 61, 63}
ControlBytes == (0..31) \cup {127}

\* write_character is at work on, or has returned from, the first byte of
\* the input (nothing was in the buffer before the call)
OnFirstByte == i = 0 /\ pc \in {"write_character", "wc_loop", "wc_symbol"}
ReturnedFromFirstByte == i = 1 /\ pc = "getc"

\* C5 as claimed: every control byte (0..31, 127) maps to the empty symbol
\* string and write_character appends nothing for it; only letters, digits,
\* the punctuation and the space (byte 32) produce samples.
C5_ControlBytesAreSilent ==
    ReturnedFromFirstByte =>
        /\ input.content[1] \in ControlBytes =>
               /\ alphabet(input.content[1]) = <<>>
               /\ result = <<>> /\ result_len = 0
        /\ result_len # 0 =>
               input.content[1] \in Letters \cup Digits \cup Punctuation \cup {32}

\* C5, amended: the bytes that produce samples are the letters, the digits,
\* the punctuation , . = ? and the bytes 7, 10 and 32, the last three each
\* producing one inter-word-space template; every other byte (the control
\* bytes but 7 and 10 among them) maps to the empty symbol string, and
\* write_character appends nothing for it at any point of the call.
C5_UnmappedBytesAreSilent ==
    LET c == input.content[1]
        producing == Letters \cup Digits \cup Punctuation \cup {7, 10, 32}
    IN  /\ (OnFirstByte \/ ReturnedFromFirstByte) /\ c \notin producing =>
               /\ alphabet(c) = <<>>
               /\ result = <<>> /\ result_len = 0 /\ total_samples = 0
        /\ ReturnedFromFirstByte /\ c \in producing => result_len > 0
        /\ ReturnedFromFirstByte /\ c \in {7, 10, 32} =>
               result = <<[off |-> 0, len |-> inter_word_space_len,
                           src |-> "inter_word_space"]>>

\* a control byte went through write_character and left the buffer empty
C5_Witness ==
    /\ ReturnedFromFirstByte
    /\ input.content = <<27>>
    /\ result = <<>>
    /\ result_len = 0

\* the five templates are allocated and filled
TemplatesReady == TemplateNames \subseteq heap

\* C6: for all wpm and fwpm in [1,100] the template lengths satisfy
\* dah_len = 3 * dit_len, intra_character_space_len = dit_len and
\* 3 * inter_word_space_len = 5 * inter_character_space_len, in whole samples.
C6_LengthRatios ==
    TemplatesReady =>
        /\ wpm \in 1..100 /\ fwpm \in 1..100
        /\ dah_tone_len = 3 * dit_tone_len
        /\ intra_character_space_len = dit_tone_len
        /\ 3 * inter_word_space_len = 5 * inter_character_space_len

\* speeds at which a unit is not a whole number of samples
C6_Witness ==
    /\ TemplatesReady
    /\ wpm = 11 /\ fwpm = 13
    /\ dit_tone_len = 4810 /\ dah_tone_len = 14430
    /\ inter_character_space_len = 12210 /\ inter_word_space_len = 20350

\* the duration of `units` units at speed s, rounded down to whole samples
FloorSamples(units, s) == (units * sample_rate * 60) \div (50 * s)

\* C7 as claimed: each length is the segment's duration rounded down,
\* floor(units * sample_rate * 60 / (50 * speed)).
C7_LengthIsFloorOfDuration ==
    TemplatesReady =>
        /\ dit_tone_len = FloorSamples(1, wpm)
        /\ dah_tone_len = FloorSamples(3, wpm)
        /\ intra_character_space_len = FloorSamples(1, wpm)
        /\ inter_character_space_len = FloorSamples(3, fwpm)
        /\ inter_word_space_len = FloorSamples(5, fwpm)

\* u is sample_rate * 60 / (50 * s) rounded down
IsUnitFloor(u, s) ==
    /\ u * (50 * s) <= sample_rate * 60
    /\ sample_rate * 60 < (u + 1) * (50 * s)

\* C7, amended: each length is the segment's number of units times the unit
\* rounded down, units * floor(sample_rate * 60 / (50 * speed)): 1 and 3
\* units at wpm for dit and dah, 1 at wpm for the intra-character space, 3
\* and 5 at fwpm for the inter-character and inter-word spaces.
C7_LengthIsUnitsTimesFloorOfUnit ==
    TemplatesReady =>
        LET u == dit_tone_len
            v == inter_character_space_len \div 3
        IN  /\ IsUnitFloor(u, wpm) /\ IsUnitFloor(v, fwpm)
            /\ dit_tone_len = 1 * u
            /\ dah_tone_len = 3 * u
            /\ intra_character_space_len = 1 * u
            /\ inter_character_space_len = 3 * v
            /\ inter_word_space_len = 5 * v

C7_Witness ==
    /\ TemplatesReady
    /\ wpm = 100 /\ fwpm = 7
    /\ dit_tone_len = 529 /\ dah_tone_len = 1587
    /\ intra_character_space_len = 529
    /\ inter_character_space_len = 22680 /\ inter_word_space_len = 37800

\* the option loop has ended and fwpm has got its default: the speeds are
\* final, and argv[1..optind-1] holds the options in the order they were
\* given, each -w without an argument of its own followed by the element
\* getopt took as its argument, and the `--` that ended them if there is one
SpeedsFinal == pc = "shift_args"

\* the options among argv[k..optind-1], each with the characters of its
\* argument
RECURSIVE Given(_)
Given(k) ==
    IF k >= optind THEN <<>>
    ELSE IF TakesArgument(argv[k].opt) /\ argv[k].arg = <<>>
    THEN <<[opt |-> argv[k].opt, arg |-> Text(argv[k + 1])]>> \o Given(k + 2)
    ELSE IF EndOfOptions(argv[k]) THEN Given(k + 1)
    ELSE <<argv[k]>> \o Given(k + 1)

\* the places of the option `o` among the options given
Places(o) == { k \in 1..Len(Given(1)) : Given(1)[k].opt = o }

\* what atoi may make of the argument of the last `o` on the command line
LastValues(o) ==
    atoi_results(Given(1)[CHOOSE k \in Places(o) : \A m \in Places(o) : m <= k].arg)

\* the option `o` is given and the value of its last argument is outside
\* [1,100]
OutOfRange(o) == Places(o) # {} /\ LastValues(o) \cap (1..100) = {}

\* C8 as claimed: a -w or -f outside [1,100] is replaced with the fixed
\* default speed 18, whatever the options and their order, so both speeds
\* handed to init_space and init_tone are in [1,100].
C8_OutOfRangeBecomesDefault ==
    SpeedsFinal =>
        /\ OutOfRange("w") => wpm = DEFAULT_WPM
        /\ OutOfRange("f") => fwpm = DEFAULT_WPM
        /\ wpm \in 1..100 /\ fwpm \in 1..100

\* C8, amended: with v the value atoi gives for the argument of the last -w,
\* wpm is v when v is in [1,100] and the fixed default speed 18 when it is
\* not; with v the value atoi gives for the argument of the last -f, fwpm is
\* v when v is in [1,100] and, the option being treated as not given, the
\* value of wpm when it is not (18 only when wpm is); whatever the options
\* and their order, both speeds handed to init_space and init_tone are in
\* [1,100].
C8_OutOfRangeFallsBack ==
    /\ SpeedsFinal =>
          /\ Places("w") # {} =>
                \E v \in LastValues("w") :
                   wpm = IF v \in 1..100 THEN v ELSE DEFAULT_WPM
          /\ Places("w") = {} => wpm = DEFAULT_WPM
          /\ Places("f") # {} =>
                \E v \in LastValues("f") :
                   fwpm = IF v \in 1..100 THEN v ELSE wpm
          /\ Places("f") = {} => fwpm = wpm
    /\ pc \in {"shift_args", "fopen", "init_space", "init_tone"} =>
          wpm \in 1..100 /\ fwpm \in 1..100

\* -w 100 with an out-of-range -f: fwpm is 100, not 18
C8_Witness ==
    /\ SpeedsFinal
    /\ OutOfRange("f")
    /\ Places("w") # {} /\ wpm = 100
    /\ fwpm = 100

IsTone(block) == block.src \in {"dit_tone", "dah_tone"}

\* a byte whose code has tones (a letter, a digit, punctuation)
HasTones(c) == alphabet(c) # <<>> /\ alphabet(c) # <<" ">>

RECURSIVE LengthOf(_)
LengthOf(blocks) ==
    IF blocks = <<>> THEN 0 ELSE Head(blocks).len + LengthOf(Tail(blocks))

\* the blocks of silence around block k, between the tone before it and the
\* tone after it
SilenceAround(k) ==
    LET before == { m \in 1..(k - 1) : IsTone(result[m]) }
        after == { m \in (k + 1)..Len(result) : IsTone(result[m]) }
        lo == CHOOSE m \in before : \A n \in before : n <= m
        hi == CHOOSE m \in after : \A n \in after : m <= n
    IN  SubSeq(result, lo + 1, hi - 1)

\* C9: with wpm = fwpm, one space byte between two mapped characters gives 7
\* units of silence between the last tone of the first and the first tone of
\* the second: the 5-unit inter-word space with one intra-character space
\* before it and one after it.
C9_WordGapIsSevenUnits ==
    /\ RenderingDone
    /\ wpm = fwpm
    /\ Len(input.content) = 3
    /\ HasTones(input.content[1])
    /\ input.content[2] = 32
    /\ HasTones(input.content[3])
    =>
    LET k == CHOOSE m \in 1..Len(result) : result[m].src = "inter_word_space"
        gap == SilenceAround(k)
    IN  /\ LengthOf(gap) = 7 * nsamples_unit(wpm)
        /\ [m \in 1..Len(gap) |-> gap[m].src] =
              <<"intra_character_space", "inter_word_space",
                "intra_character_space">>

\* the sample at position p of a buffer: the one of the last copy that covers
\* p.  A silence sample is 0; a tone sample is named by its template and its
\* index in it.
SampleAt(buf, p) ==
    LET covering == { k \in 1..Len(buf) :
                        buf[k].off <= p /\ p < buf[k].off + buf[k].len }
        last == CHOOSE k \in covering : \A m \in covering : m <= k
    IN  IF covering = {} THEN <<"indeterminate", p>>
        ELSE IF IsTone(buf[last]) THEN <<buf[last].src, p - buf[last].off>>
        ELSE <<"silence", 0>>

\* the first and the last position of every copy in a buffer
Probes(buf) ==
    UNION { {buf[k].off, buf[k].off + buf[k].len - 1} : k \in 1..Len(buf) }

\* the copies lie one after the other from offset 0 and end at `len`
Contiguous(buf, len) ==
    /\ \A k \in 1..Len(buf) :
          buf[k].off = IF k = 1 THEN 0 ELSE buf[k - 1].off + buf[k - 1].len
    /\ len = IF buf = <<>> THEN 0 ELSE buf[Len(buf)].off + buf[Len(buf)].len

\* the step appends a whole copy of the template `data` and nothing else
IsAppendOf(data) ==
    /\ result' = Append(result, [off |-> result_len,
                                 len |-> TemplateLength(data), src |-> data])
    /\ result_len' = result_len + TemplateLength(data)
    /\ total_samples' = result_len'
    /\ data \in heap' /\ "result" \in heap'
    /\ UNCHANGED <<tonelens, spacelens>>

\* C10: append is the only mutation of the sample buffer.  Until main frees
\* the buffer, every step that changes result, result_len or total_samples
\* is a write_result that appends one whole template after the previous
\* contents: result_len grows by exactly the template's length,
\* total_samples = result_len, the template is unchanged, and every sample
\* appended before keeps its position and value.
C10_AppendOnly ==
    [][ pc # "free_result" =>
          /\ (bufvars' # bufvars => \E data \in TemplateNames : IsAppendOf(data))
          /\ result_len' >= result_len
          /\ total_samples' = result_len'
          /\ Contiguous(result', result_len')
          /\ \A p \in Probes(result) : SampleAt(result', p) = SampleAt(result, p)
      ]_vars

\* a template was appended after earlier ones and main has gone on
C10_Witness ==
    /\ pc = "getc"
    /\ Len(result) >= 3
    /\ result[3].off = result[1].len + result[2].len
    /\ result_len = result[1].len + result[2].len + result[3].len
    /\ total_samples = result_len

(* ------------------------------------------------------------------ *)
(* C11: the encoder consumes the finished buffer once, end to end       *)
(* ------------------------------------------------------------------ *)
\* the positions of encode_result
EncodeStages == {"fmemopen", "encoder_new", "encoder_init", "stream"}

\* encode_result has been entered at some time
EncodingStarted ==
    pc \in EncodeStages \/ fin.state # "null" \/ encoder.state # "null"

\* the rendering loop is over: its input is closed and the templates freed
RenderingOver ==
    /\ input.state = "closed"
    /\ heap \subseteq {"result"}
    /\ pc \notin {"getc", "write_inter_character_space", "write_character",
                  "wc_loop", "wc_symbol"}

\* the streaming loop ended with no read error and no encoder rejection
StreamedWithoutError == pc = "stream" /\ ok /\ left = 0

\* sample values from both ends of the range make_tone and make_space write
SampleProbes == {-8192, -8191, -257, -256, -255, -1, 0, 1, 255, 256, 257,
                 8191, 8192}

\* what is true of the blocks handed to the encoder in every state
BlocksInOrder ==
    /\ \A k \in 1..Len(encoder.blocks) :
          /\ encoder.blocks[k].len \in 1..READSIZE
          /\ encoder.blocks[k].off =
                IF k = 1 THEN 0
                ELSE encoder.blocks[k - 1].off + encoder.blocks[k - 1].len
          /\ encoder.blocks[k].off + encoder.blocks[k].len <= total_samples
    /\ encoder.blocks # <<>> =>
          \A v \in SampleProbes : pcm_sample(int16_bytes(v)) = v
    /\ StreamedWithoutError =>
          /\ Contiguous(encoder.blocks, total_samples)
          /\ encoder.fed = total_samples
          /\ fin.pos = total_samples

\* C11: encode_result starts only after rendering has finished (its input is
\* closed, the templates are freed and the buffer no longer changes while it
\* runs), and its streaming loop always terminates.  The blocks handed to
\* the encoder hold at most 1024 samples each and follow one another from
\* offset 0 of the buffer without gap or overlap; when the loop ends with
\* no read or encoder error they cover exactly total_samples samples, each
\* sample of the buffer once and in buffer order; after a short read or an
\* encoder rejection no further block is handed over.
C11_EncodesFinishedBufferOnce ==
    /\ [](EncodingStarted => RenderingOver)
    /\ []BlocksInOrder
    /\ [][ /\ (pc \in EncodeStages => bufvars' = bufvars)
           /\ (encoder'.blocks # encoder.blocks =>
                  /\ pc = "stream" /\ ok
                  /\ \E n \in 1..READSIZE :
                        encoder'.blocks =
                          Append(encoder.blocks, [off |-> fin.pos, len |-> n])
                  /\ \A p \in {fin.pos, fin'.pos - 1} :
                        SampleAt(result', p) = SampleAt(result, p))
       ]_vars
    /\ (pc = "stream" ~> pc \in {"free_result", "exited"})

\* a rendered buffer with tones in it went to the encoder in several blocks,
\* the last one a partial block, without any error
C11_Witness ==
    /\ StreamedWithoutError
    /\ \E k \in 1..Len(result) : IsTone(result[k])
    /\ Len(encoder.blocks) >= 3
    /\ encoder.blocks[1].len = READSIZE
    /\ encoder.blocks[Len(encoder.blocks)].len < READSIZE
    /\ encoder.fed = result_len

====
